---- MODULE Spec2Model ----
(***************************************************************************)
(* Model of the bounded collection (brain/util/obj/base_list.py) and of    *)
(* the camera acquisition layer built on it (brain/util/cv/cam/cv_cam.py). *)
(***************************************************************************)
EXTENDS Integers, Sequences, FiniteSets, TLC

\* ------------------------------------------------------------------ bounds
MaxCap == 3          \* largest capacity of the stand-alone BaseList
MaxItem == 2         \* items are drawn from 1..MaxItem
MaxBatch == 2        \* longest batch handed to append
MaxUnbounded == 4    \* longest unbounded list explored

Items == 1..MaxItem

\* ------------------------------------------------------------ BaseList state
VARIABLES
    items,       \* BaseList._items
    max_size,    \* BaseList._max_size
    raised,      \* exception raised by the last BaseList call, "none" if it returned
    lastOp       \* the last BaseList call and whether it evicted

listVars == <<items, max_size, raised, lastOp>>

\* ------------------------------------- one sequence appended to two BaseLists
VARIABLES
    input,        \* the sequence s a caller appends
    policy,       \* the a_removal_strategy the caller passes with every append
    fed,          \* how many items of s were appended one by one to BaseList._items
    batch_items,  \* _items of a second BaseList of the same a_max_size
    batch_done,   \* append(s, policy) was called on the second BaseList
    held          \* len(_items) when clear() was called before the appends, -1 if it was not

feedVars == <<input, policy, fed, batch_items, batch_done, held>>

\* ------------------------------------------------------------ BaseDict state
VARIABLES
    dict_items,     \* BaseDict._items: the [key, value] entries in insertion order
    dict_max_size,  \* BaseDict._max_size
    dict_raised,    \* exception raised by the last BaseDict call, "none" if it returned
    dict_lastOp     \* the last BaseDict call: its arguments, and what it found on entry

dictVars == <<dict_items, dict_max_size, dict_raised, dict_lastOp>>

\* -------------------------------------------------------------- Camera state
VARIABLES
    cache_size,        \* a_cache_size, the capacity of Camera.frames
    reinit_duration,   \* Camera.reinit_duration
    reinit_interval,   \* Camera.reinit_interval
    frames,            \* Camera.frames._items, oldest first
    opened,            \* Camera.is_opened: the capture handle is open
    current_frame_id,  \* Camera._current_frame_id
    pc,                \* where the worker thread stands
    caller,            \* who called the read() in progress: "stream", "direct" or "none"
    stream,            \* stream(): "notstarted", "running", "raised" or "returned"
    now,               \* time.time(), counted from the entry of reinitialize_camera
    end_time,          \* reinitialize_camera's end_time
    current_time,      \* reinitialize_camera's current_time
    i,                 \* reinitialize_camera's trial number
    ret,               \* the local ret of read()/reinitialize_camera()
    frame,             \* the local frame: "None" or "buf"
    readResult,        \* how the last read() ended: "none", "ok", "fatal", "probe_raised"
    lastFrame,         \* sequence_id of the Frame2D the last successful read() returned
    first,             \* outcome of the first native read of the last read() call
    probe,             \* outcome of the probe read of the last read() call, "none" if none
    reinit_calls,      \* calls of reinitialize_camera made by the last read() call
    id_at_call,        \* _current_frame_id when the last read() call was entered
    n_ok,              \* number of read() calls that returned a frame
    native_reads,      \* calls of video_capture.read() made by the last read() call
    n_appended,        \* number of frames stream() appended to Camera.frames
    after_fatal,       \* "none"; "fatal" once reinitialize_camera raised with its budget
                       \* spent and no open having succeeded; "open_attempted" once
                       \* initialize_video() was called again after that
    torn_seen,         \* a consumer saw fewer than cache_size frames after the cache was full
    empty_seen,        \* a consumer's Camera.frame failed as empty after a frame was cached
    stop_requested,    \* another thread has shut the camera down; no line of Camera reads it
    latest,            \* what the last evaluation of Camera.frame gave its caller
    construction,      \* how far Camera.__init__ went, and what it has done
    a_cache_size       \* the a_cache_size handed to Camera.__init__

camConfig == <<cache_size, reinit_duration, reinit_interval>>
camLocals == <<now, end_time, current_time, i, ret, frame>>
camHistory == <<readResult, lastFrame, first, probe, reinit_calls, id_at_call, n_ok, after_fatal,
                native_reads>>
consumerVars == <<torn_seen, empty_seen>>
callerVars == <<latest, construction, a_cache_size>>
camVars == <<camConfig, frames, opened, current_frame_id, pc, caller, stream, camLocals,
             camHistory, n_appended, consumerVars, stop_requested, callerVars>>

vars == <<listVars, camVars, feedVars, dictVars>>

\* ------------------------------------------------------------ BaseList code
\* str.lower() on the removal-strategy tokens that callers pass
Strategies == {"first", "last", "FIRST", "Last", "middle"}

Lower(s) ==
    CASE s = "FIRST" -> "first"
      [] s = "Last" -> "last"
      [] OTHER -> s

\* list indexing that takes no negative index
PyPosNoNegative(its, a_index) ==
    IF a_index >= 0 /\ a_index < Len(its) THEN a_index + 1 ELSE 0

\* Python list indexing: a_index in -len..len-1 maps to a 1-based position,
\* anything else is an IndexError (position 0)
PyPos(its, a_index) ==
    IF a_index >= 0 /\ a_index < Len(its) THEN a_index + 1
    ELSE IF a_index < 0 /\ a_index >= -Len(its) THEN Len(its) + a_index + 1
    ELSE 0

RemoveAt(its, p) == [k \in 1..(Len(its) - 1) |-> IF k < p THEN its[k] ELSE its[k + 1]]

\* _append_item without the capacity test
AppendItemNoEvict(its, max, a_item, a_removal_strategy) ==
    [items |-> Append(its, a_item), raised |-> "none", evicted |-> FALSE]

\* _append_item evicting the newest element whatever the strategy
AppendItemEvictLast(its, max, a_item, a_removal_strategy) ==
    IF max # -1 /\ Len(its) >= max
    THEN IF its = <<>>
         THEN [items |-> its, raised |-> "IndexError", evicted |-> FALSE]
         ELSE [items |-> Append(RemoveAt(its, Len(its)), a_item), raised |-> "none", evicted |-> TRUE]
    ELSE [items |-> Append(its, a_item), raised |-> "none", evicted |-> FALSE]

\* _append_item evicting the oldest element whatever the strategy
AppendItemEvictFirst(its, max, a_item, a_removal_strategy) ==
    IF max # -1 /\ Len(its) >= max
    THEN IF its = <<>>
         THEN [items |-> its, raised |-> "IndexError", evicted |-> FALSE]
         ELSE [items |-> Append(RemoveAt(its, 1), a_item), raised |-> "none", evicted |-> TRUE]
    ELSE [items |-> Append(its, a_item), raised |-> "none", evicted |-> FALSE]

\* _append_item inserting the new element in front
AppendItemFront(its, max, a_item, a_removal_strategy) ==
    IF max # -1 /\ Len(its) >= max
    THEN IF its = <<>>
         THEN [items |-> its, raised |-> "IndexError", evicted |-> FALSE]
         ELSE [items |-> <<a_item>> \o RemoveAt(its, 1), raised |-> "none", evicted |-> TRUE]
    ELSE [items |-> <<a_item>> \o its, raised |-> "none", evicted |-> FALSE]

\* _append_item whose capacity test does not except the marker -1
AppendItemNoMarker(its, max, a_item, a_removal_strategy) ==
    IF Len(its) >= max
    THEN IF its = <<>>
         THEN [items |-> its, raised |-> "IndexError", evicted |-> FALSE]
         ELSE [items |-> Append(RemoveAt(its, 1), a_item), raised |-> "none", evicted |-> TRUE]
    ELSE [items |-> Append(its, a_item), raised |-> "none", evicted |-> FALSE]

\* BaseList._append_item: evict per strategy when len >= max_size, then append
AppendItem(its, max, a_item, a_removal_strategy) ==
    IF max # -1 /\ Len(its) >= max
    THEN IF Lower(a_removal_strategy) = "first"
         THEN IF its = <<>>
              THEN [items |-> its, raised |-> "IndexError", evicted |-> FALSE]
              ELSE [items |-> Append(RemoveAt(its, 1), a_item), raised |-> "none", evicted |-> TRUE]
         ELSE IF Lower(a_removal_strategy) = "last"
              THEN IF its = <<>>
                   THEN [items |-> its, raised |-> "IndexError", evicted |-> FALSE]
                   ELSE [items |-> Append(RemoveAt(its, Len(its)), a_item), raised |-> "none", evicted |-> TRUE]
              ELSE [items |-> its, raised |-> "ValueError", evicted |-> FALSE]
    ELSE [items |-> Append(its, a_item), raised |-> "none", evicted |-> FALSE]

\* append on a list appending its first element only
AppendAllHeadOnly(its, max, batch, a_removal_strategy, ev) ==
    IF batch = <<>>
    THEN [items |-> its, raised |-> "none", evicted |-> ev]
    ELSE AppendItem(its, max, Head(batch), a_removal_strategy)

\* BaseList.append on a list: _append_item for each element in order; the
\* loop stops at the first exception and keeps what was appended before it
RECURSIVE AppendAll(_, _, _, _, _)
AppendAll(its, max, batch, a_removal_strategy, ev) ==
    IF batch = <<>>
    THEN [items |-> its, raised |-> "none", evicted |-> ev]
    ELSE LET r == AppendItem(its, max, Head(batch), a_removal_strategy)
         IN IF r.raised # "none"
            THEN [items |-> r.items, raised |-> r.raised, evicted |-> ev]
            ELSE AppendAll(r.items, max, Tail(batch), a_removal_strategy, ev \/ r.evicted)

Batches == UNION {[1..n -> Items] : n \in 0..MaxBatch}

\* room left for an append in the explored part of an unbounded list
InExplored(n) == max_size # -1 \/ Len(items) + n <= MaxUnbounded

\* ------------------------------------------------------- BaseList operations
\* BaseList.__init__ without a_items: an empty list with the given a_max_size
ListInit ==
    /\ max_size \in (-2)..MaxCap
    /\ items = <<>>
    /\ raised = "none"
    /\ lastOp = [op |-> "init", evicted |-> FALSE]

\* append(a_item) with a single item
ListAppend ==
    \E a_item \in Items, s \in Strategies :
        LET r == AppendItem(items, max_size, a_item, s)
        IN /\ InExplored(1)
           /\ items' = r.items
           /\ raised' = r.raised
           /\ lastOp' = [op |-> "append", evicted |-> r.evicted]
           /\ UNCHANGED <<max_size, camVars, feedVars, dictVars>>

\* append(a_item) with a list of items
ListAppendBatch ==
    \E batch \in Batches, s \in Strategies :
        LET r == AppendAll(items, max_size, batch, s, FALSE)
        IN /\ InExplored(Len(batch))
           /\ items' = r.items
           /\ raised' = r.raised
           /\ lastOp' = [op |-> "append_batch", evicted |-> r.evicted]
           /\ UNCHANGED <<max_size, camVars, feedVars, dictVars>>

\* __setitem__(a_index, a_item)
ListSetItem ==
    \E a_index \in (-(MaxUnbounded + 1))..MaxUnbounded, a_item \in Items :
        LET p == PyPos(items, a_index)
        IN /\ items' = IF p = 0 THEN items ELSE [items EXCEPT ![p] = a_item]
           /\ raised' = IF p = 0 THEN "IndexError" ELSE "none"
           /\ lastOp' = [op |-> "set", evicted |-> FALSE]
           /\ UNCHANGED <<max_size, camVars, feedVars, dictVars>>

\* __delitem__(a_index)
ListDelItem ==
    \E a_index \in (-(MaxUnbounded + 1))..MaxUnbounded :
        LET p == PyPos(items, a_index)
        IN /\ items' = IF p = 0 THEN items ELSE RemoveAt(items, p)
           /\ raised' = IF p = 0 THEN "IndexError" ELSE "none"
           /\ lastOp' = [op |-> "remove", evicted |-> FALSE]
           /\ UNCHANGED <<max_size, camVars, feedVars, dictVars>>

\* pop(a_index)
ListPop ==
    \E a_index \in (-(MaxUnbounded + 1))..MaxUnbounded :
        LET p == PyPos(items, a_index)
        IN /\ items' = IF p = 0 THEN items ELSE RemoveAt(items, p)
           /\ raised' = IF p = 0 THEN "IndexError" ELSE "none"
           /\ lastOp' = [op |-> "pop", evicted |-> FALSE]
           /\ UNCHANGED <<max_size, camVars, feedVars, dictVars>>

\* clear()
ListClear ==
    /\ items' = <<>>
    /\ raised' = "none"
    /\ lastOp' = [op |-> "clear", evicted |-> FALSE]
    /\ UNCHANGED <<max_size, camVars, feedVars, dictVars>>

\* no stand-alone BaseList is under test
NoList ==
    /\ max_size = -1
    /\ items = <<>>
    /\ raised = "none"
    /\ lastOp = [op |-> "init", evicted |-> FALSE]

\* no sequence is being fed
NoFeed ==
    /\ input = <<>>
    /\ policy = "first"
    /\ fed = 0
    /\ batch_items = <<>>
    /\ batch_done = FALSE
    /\ held = -1

\* ------------------------------------------------------------ BaseDict code
MaxKey == 3          \* keys are drawn from 1..MaxKey
MaxDictCap == 2      \* largest capacity of the BaseDict
MaxDictBatch == 1    \* longest list of keys handed to append
MaxDictUnbounded == 2  \* most entries of an unbounded dictionary explored

Keys == 1..MaxKey

\* the values are opaque to BaseDict: two of them tell a replaced value apart
Values == {"v1", "v2"}

\* the removal-strategy tokens passed to BaseDict.append: the two strategies,
\* one of them in another case, and an unknown token
DictStrategies == {"first", "Last", "middle"}

\* position of a_key in the insertion order, 0 if the key is absent
KeyPos(d, a_key) ==
    IF \E j \in 1..Len(d) : d[j].key = a_key
    THEN CHOOSE j \in 1..Len(d) : d[j].key = a_key
    ELSE 0

DictKeys(d) == {d[j].key : j \in 1..Len(d)}

\* self._items[a_key] = a_value: a present key keeps its place in the insertion
\* order, a new key goes last
Assign(d, a_key, a_value) ==
    IF KeyPos(d, a_key) # 0
    THEN [d EXCEPT ![KeyPos(d, a_key)].value = a_value]
    ELSE Append(d, [key |-> a_key, value |-> a_value])

\* self._items.pop(a_key) and del self._items[a_key] for a present key
Without(d, a_key) == RemoveAt(d, KeyPos(d, a_key))

\* _append_item without the capacity test
DictAppendItemNoEvict(d, max, a_key, a_value, a_removal_strategy) ==
    [items |-> Assign(d, a_key, a_value), raised |-> "none", evicted |-> FALSE]

\* _append_item with the two removal strategies exchanged
DictAppendItemSwapped(d, max, a_key, a_value, a_removal_strategy) ==
    IF max # -1 /\ Len(d) >= max
    THEN IF Lower(a_removal_strategy) = "last"
         THEN IF d = <<>>
              THEN [items |-> d, raised |-> "StopIteration", evicted |-> FALSE]
              ELSE [items |-> Assign(RemoveAt(d, 1), a_key, a_value), raised |-> "none", evicted |-> TRUE]
         ELSE IF Lower(a_removal_strategy) = "first"
              THEN IF d = <<>>
                   THEN [items |-> d, raised |-> "KeyError", evicted |-> FALSE]
                   ELSE [items |-> Assign(RemoveAt(d, Len(d)), a_key, a_value), raised |-> "none", evicted |-> TRUE]
              ELSE [items |-> d, raised |-> "ValueError", evicted |-> FALSE]
    ELSE [items |-> Assign(d, a_key, a_value), raised |-> "none", evicted |-> FALSE]

\* _append_item evicting only to make room for a key that is new
DictAppendItemSparesPresent(d, max, a_key, a_value, a_removal_strategy) ==
    IF max # -1 /\ Len(d) >= max /\ KeyPos(d, a_key) = 0
    THEN IF Lower(a_removal_strategy) = "first"
         THEN IF d = <<>>
              THEN [items |-> d, raised |-> "StopIteration", evicted |-> FALSE]
              ELSE [items |-> Assign(RemoveAt(d, 1), a_key, a_value), raised |-> "none", evicted |-> TRUE]
         ELSE IF Lower(a_removal_strategy) = "last"
              THEN IF d = <<>>
                   THEN [items |-> d, raised |-> "KeyError", evicted |-> FALSE]
                   ELSE [items |-> Assign(RemoveAt(d, Len(d)), a_key, a_value), raised |-> "none", evicted |-> TRUE]
              ELSE [items |-> d, raised |-> "ValueError", evicted |-> FALSE]
    ELSE [items |-> Assign(d, a_key, a_value), raised |-> "none", evicted |-> FALSE]

\* BaseDict._append_item: when len >= max_size drop the first key of the
\* insertion order ('first') or the last one ('last'), then assign
DictAppendItem(d, max, a_key, a_value, a_removal_strategy) ==
    IF max # -1 /\ Len(d) >= max
    THEN IF Lower(a_removal_strategy) = "first"
         THEN IF d = <<>>
              THEN [items |-> d, raised |-> "StopIteration", evicted |-> FALSE]
              ELSE [items |-> Assign(RemoveAt(d, 1), a_key, a_value), raised |-> "none", evicted |-> TRUE]
         ELSE IF Lower(a_removal_strategy) = "last"
              THEN IF d = <<>>
                   THEN [items |-> d, raised |-> "KeyError", evicted |-> FALSE]
                   ELSE [items |-> Assign(RemoveAt(d, Len(d)), a_key, a_value), raised |-> "none", evicted |-> TRUE]
              ELSE [items |-> d, raised |-> "ValueError", evicted |-> FALSE]
    ELSE [items |-> Assign(d, a_key, a_value), raised |-> "none", evicted |-> FALSE]

\* BaseDict.append on two lists: lists of different lengths raise before any
\* entry is appended; else _append_item for each zipped pair, the loop
\* stopping at the first exception
RECURSIVE DictAppendAll(_, _, _, _, _)
DictAppendAll(d, max, a_key, a_value, a_removal_strategy) ==
    IF Len(a_key) # Len(a_value)
    THEN [items |-> d, raised |-> "RuntimeError", evicted |-> FALSE]
    ELSE IF a_key = <<>>
    THEN [items |-> d, raised |-> "none", evicted |-> FALSE]
    ELSE LET r == DictAppendItem(d, max, Head(a_key), Head(a_value), a_removal_strategy)
         IN IF r.raised # "none"
            THEN r
            ELSE LET t == DictAppendAll(r.items, max, Tail(a_key), Tail(a_value), a_removal_strategy)
                 IN [t EXCEPT !.evicted = @ \/ r.evicted]

\* __setitem__ appending whether or not the key is present
SetItemAlwaysAppends(d, max, a_key, a_value) ==
    DictAppendItem(d, max, a_key, a_value, "first")

\* __setitem__ appending a new key with the 'last' strategy
SetItemEvictsNewest(d, max, a_key, a_value) ==
    IF KeyPos(d, a_key) # 0 \/ max = -1
    THEN [items |-> Assign(d, a_key, a_value), raised |-> "none", evicted |-> FALSE]
    ELSE IF max > 0
    THEN DictAppendItem(d, max, a_key, a_value, "last")
    ELSE [items |-> d, raised |-> "IndexError", evicted |-> FALSE]

\* __setitem__ moving a key that is present to the end of the insertion order
SetItemRefreshesAge(d, max, a_key, a_value) ==
    IF KeyPos(d, a_key) # 0
    THEN [items |-> Append(Without(d, a_key), [key |-> a_key, value |-> a_value]),
          raised |-> "none", evicted |-> FALSE]
    ELSE IF max = -1
    THEN [items |-> Assign(d, a_key, a_value), raised |-> "none", evicted |-> FALSE]
    ELSE IF max > 0
    THEN DictAppendItem(d, max, a_key, a_value, "first")
    ELSE [items |-> d, raised |-> "IndexError", evicted |-> FALSE]

\* BaseDict.__setitem__: assign when the key is present or the dictionary is
\* unbounded, append with the default strategy when max_size > 0, else raise
SetItem(d, max, a_key, a_value) ==
    IF KeyPos(d, a_key) # 0 \/ max = -1
    THEN [items |-> Assign(d, a_key, a_value), raised |-> "none", evicted |-> FALSE]
    ELSE IF max > 0
    THEN DictAppendItem(d, max, a_key, a_value, "first")
    ELSE [items |-> d, raised |-> "IndexError", evicted |-> FALSE]

KeyLists == UNION {[1..n -> Keys] : n \in 0..MaxDictBatch}

\* the lists of values handed to append with a list of keys: as long as the
\* keys, or one longer
ValueLists(a_key) ==
    {[j \in 1..Len(a_key) |-> v] : v \in Values} \cup {[j \in 1..(Len(a_key) + 1) |-> "v1"]}

\* the part of an unbounded dictionary that is explored
DictInExplored(d) == IF dict_max_size = -1 THEN Len(d) <= MaxDictUnbounded ELSE TRUE

\* the record of a call: its arguments (0 and "none" for those it does not
\* take), whether a_key was in self._items on entry (had) and whether
\* len(self) >= self._max_size held on entry (full)
Call(name, a_key, a_value, a_removal_strategy) ==
    [op |-> name, key |-> a_key, value |-> a_value, strategy |-> a_removal_strategy,
     had |-> KeyPos(dict_items, a_key) # 0,
     full |-> dict_max_size # -1 /\ Len(dict_items) >= dict_max_size]

NoCall == [op |-> "init", key |-> 0, value |-> "none", strategy |-> "none",
           had |-> FALSE, full |-> FALSE]

\* ------------------------------------------------------- BaseDict operations
\* BaseDict.__init__ without a_key and a_value: an empty dictionary
DictInit ==
    /\ dict_max_size \in (-2)..MaxDictCap
    /\ dict_items = <<>>
    /\ dict_raised = "none"
    /\ dict_lastOp = NoCall

\* append(a_key, a_value, a_removal_strategy) with a single key and value
DictAppend ==
    \E a_key \in Keys, a_value \in Values, s \in DictStrategies :
        LET r == DictAppendItem(dict_items, dict_max_size, a_key, a_value, s)
        IN /\ DictInExplored(r.items)
           /\ dict_items' = r.items
           /\ dict_raised' = r.raised
           /\ dict_lastOp' = Call("append", a_key, a_value, s)
           /\ UNCHANGED <<dict_max_size, listVars, feedVars, camVars>>

\* append(a_key, a_value, a_removal_strategy) with a list of keys and a list of values
DictAppendBatch ==
    \E a_key \in KeyLists, s \in DictStrategies :
        \E a_value \in ValueLists(a_key) :
            LET r == DictAppendAll(dict_items, dict_max_size, a_key, a_value, s)
            IN /\ DictInExplored(r.items)
               /\ dict_items' = r.items
               /\ dict_raised' = r.raised
               /\ dict_lastOp' = Call("append_batch", 0, "none", s)
               /\ UNCHANGED <<dict_max_size, listVars, feedVars, camVars>>

\* __setitem__(a_key, a_value)
DictSetItem ==
    \E a_key \in Keys, a_value \in Values :
        LET r == SetItem(dict_items, dict_max_size, a_key, a_value)
        IN /\ DictInExplored(r.items)
           /\ dict_items' = r.items
           /\ dict_raised' = r.raised
           /\ dict_lastOp' = Call("set", a_key, a_value, "none")
           /\ UNCHANGED <<dict_max_size, listVars, feedVars, camVars>>

\* __delitem__(a_key)
DictDelItem ==
    \E a_key \in Keys :
        /\ dict_items' = IF KeyPos(dict_items, a_key) = 0 THEN dict_items ELSE Without(dict_items, a_key)
        /\ dict_raised' = IF KeyPos(dict_items, a_key) = 0 THEN "KeyError" ELSE "none"
        /\ dict_lastOp' = Call("remove", a_key, "none", "none")
        /\ UNCHANGED <<dict_max_size, listVars, feedVars, camVars>>

\* pop(a_key)
DictPop ==
    \E a_key \in Keys :
        /\ dict_items' = IF KeyPos(dict_items, a_key) = 0 THEN dict_items ELSE Without(dict_items, a_key)
        /\ dict_raised' = IF KeyPos(dict_items, a_key) = 0 THEN "KeyError" ELSE "none"
        /\ dict_lastOp' = Call("pop", a_key, "none", "none")
        /\ UNCHANGED <<dict_max_size, listVars, feedVars, camVars>>

\* clear()
DictClear ==
    /\ dict_items' = <<>>
    /\ dict_raised' = "none"
    /\ dict_lastOp' = Call("clear", 0, "none", "none")
    /\ UNCHANGED <<dict_max_size, listVars, feedVars, camVars>>

\* no BaseDict is under test
NoDict ==
    /\ dict_max_size = -1
    /\ dict_items = <<>>
    /\ dict_raised = "none"
    /\ dict_lastOp = NoCall

\* ------------------------------------------------------------- Camera code
\* Frame2D(a_data=frame, a_sequence_id=..., a_video_id=self._id)
Frame2D(a_sequence_id) == [sequence_id |-> a_sequence_id]

\* what cv2.VideoCapture.read() can do: return (ret, frame) or raise; a released
\* capture only returns (False, None) or raises
Outcomes == {"ok", "ret_false", "frame_none", "ret_false_frame_none", "raise"}

NativeOutcomes(is_opened) ==
    IF is_opened THEN Outcomes ELSE {"ret_false_frame_none", "raise"}

OutcomeRet(o) == o \in {"ok", "frame_none"}

OutcomeFrame(o) == IF o \in {"ok", "ret_false"} THEN "buf" ELSE "None"

\* read() treating only a raised exception and a false flag as errors
ReadErrorIgnoresNone(o) == o = "raise" \/ ~OutcomeRet(o)

\* read(): the error flag after the native read
ReadError(o) ==
    \/ o = "raise"
    \/ OutcomeFrame(o) = "None"
    \/ ~OutcomeRet(o)

\* the sequence id left unchanged
NextFrameIdStuck(id) == id

\* read(): self._current_frame_id += 1
NextFrameId(id) == id + 1

\* the loop test that never ends the retries
LoopCondAlways(cur, end) == TRUE

\* reinitialize_camera(): while current_time < end_time
LoopCond(cur, end) == cur < end

\* the final test with the flag inverted
ReinitFailedInverted(is_opened, r, f) == ~is_opened \/ r \/ f = "None"

\* reinitialize_camera(): if not self.is_opened or not ret or frame is None
ReinitFailed(is_opened, r, f) == ~is_opened \/ ~r \/ f = "None"

Min(a, b) == IF a < b THEN a ELSE b

\* a sleep of reinit_interval whatever the time measured
TimeToSleepAlways(cur, end, interval) == interval

\* reinitialize_camera(): time_to_sleep, 0 when current_time >= end_time
TimeToSleep(cur, end, interval) ==
    IF cur < end THEN Min(end - cur, interval) ELSE 0

\* ------------------------------------------------------------ Camera bounds
MaxCache == 2        \* largest cache_size
MaxDuration == 5     \* largest reinit_duration, in clock ticks
MaxInterval == 2     \* largest reinit_interval, in clock ticks
MaxOpenDur == 1      \* longest time one open attempt takes, in clock ticks
MaxFrames == 3       \* read() is not called again once this many frames were produced
MaxTrials == 6       \* the trial number stops counting here

\* the latest clock reading at which a trial can end: it starts with
\* current_time < end_time, after a sleep that ends at end_time at the latest
ClockCap == MaxDuration + MaxOpenDur

\* time.time(): readings later than ClockCap are not told apart
Clock(t) == IF t > ClockCap THEN ClockCap ELSE t

\* Camera.frame was not evaluated yet
NoResult == [raised |-> "none", sequence_id |-> 0]

\* Camera.__init__ returned: the device was asked to open and the cache exists
Constructed == [state |-> "done", open_called |-> TRUE, cache_created |-> TRUE]

\* an a_cache_size that is an int
IntArg(v) == [is_int |-> TRUE, value |-> v]

\* a constructed camera on which Camera.frame was not evaluated yet
CallerInit ==
    /\ latest = NoResult
    /\ construction = Constructed
    /\ a_cache_size = IntArg(cache_size)

\* --------------------------------------------------------------- Camera init
\* Video2D.__init__: one open attempt, the frame counter at 0
Video2DInit ==
    /\ opened \in BOOLEAN
    /\ current_frame_id = 0

\* Camera.__init__: a_cache_size >= 1, the reinit parameters, an empty cache
CameraInit ==
    /\ cache_size \in 1..MaxCache
    /\ reinit_duration \in 0..MaxDuration
    /\ reinit_interval \in 0..MaxInterval
    /\ frames = <<>>

\* the worker thread and the bookkeeping before any call
WorkerInit ==
    /\ pc = "idle"
    /\ caller = "none"
    /\ stream = "notstarted"
    /\ now = 0 /\ end_time = 0 /\ current_time = 0 /\ i = 0
    /\ ret = FALSE /\ frame = "None"
    /\ readResult = "none" /\ lastFrame = 0 /\ first = "none" /\ probe = "none"
    /\ reinit_calls = 0 /\ id_at_call = 0 /\ n_ok = 0 /\ n_appended = 0
    /\ native_reads = 0
    /\ after_fatal = "none"
    /\ torn_seen = FALSE /\ empty_seen = FALSE
    /\ stop_requested = FALSE

\* no camera is under test
NoCamera ==
    /\ cache_size = 1 /\ reinit_duration = 0 /\ reinit_interval = 0
    /\ frames = <<>>
    /\ opened = FALSE /\ current_frame_id = 0
    /\ WorkerInit
    /\ CallerInit

Init == NoList /\ NoFeed /\ NoDict /\ Video2DInit /\ CameraInit /\ WorkerInit /\ CallerInit

\* --------------------------------------------------------- Camera operations
\* read(): if not ret or frame is None -> raise RuntimeError
ReadFailed(r, f) == ~r \/ f = "None"

\* read() counting a sequence id however it ends
ReadEndsCountsAlways(result) ==
    /\ readResult' = result
    /\ pc' = IF caller = "stream"
             THEN (IF result = "ok" THEN "stream_append" ELSE "stream_except")
             ELSE "idle"
    /\ caller' = IF caller = "stream" THEN "stream" ELSE "none"
    /\ current_frame_id' = NextFrameId(current_frame_id)
    /\ lastFrame' = IF result = "ok" THEN NextFrameId(current_frame_id) ELSE lastFrame
    /\ n_ok' = IF result = "ok" THEN n_ok + 1 ELSE n_ok
    /\ now' = 0 /\ end_time' = 0 /\ current_time' = 0
    /\ ret' = FALSE /\ frame' = "None"

\* read() ends: it returns (ret, Frame2D) with the next sequence id, or an
\* exception leaves it; control goes back to stream() or to the direct caller
ReadEnds(result) ==
    /\ readResult' = result
    /\ pc' = IF caller = "stream"
             THEN (IF result = "ok" THEN "stream_append" ELSE "stream_except")
             ELSE "idle"
    /\ caller' = IF caller = "stream" THEN "stream" ELSE "none"
    /\ current_frame_id' = IF result = "ok" THEN NextFrameId(current_frame_id)
                           ELSE current_frame_id
    /\ lastFrame' = IF result = "ok" THEN NextFrameId(current_frame_id) ELSE lastFrame
    /\ n_ok' = IF result = "ok" THEN n_ok + 1 ELSE n_ok
    /\ now' = 0 /\ end_time' = 0 /\ current_time' = 0
    /\ ret' = FALSE /\ frame' = "None"

\* read(): lines after the error handling
ReadTail(r, f) == IF ReadFailed(r, f) THEN ReadEnds("fatal") ELSE ReadEnds("ok")

\* a read() call is entered: the per-call bookkeeping starts afresh
EnterRead ==
    /\ current_frame_id < MaxFrames
    /\ pc' = "read"
    /\ first' = "none" /\ probe' = "none" /\ reinit_calls' = 0 /\ id_at_call' = current_frame_id
    /\ readResult' = "none" /\ i' = 0 /\ ret' = FALSE /\ frame' = "None"
    /\ native_reads' = 0

\* a caller other than stream() calls read()
CallRead ==
    /\ pc = "idle"
    /\ EnterRead
    /\ caller' = "direct"
    /\ UNCHANGED <<listVars, feedVars, dictVars, camConfig, frames, opened, current_frame_id, stream, now,
                   end_time, current_time, lastFrame, n_ok, n_appended, after_fatal,
                   consumerVars, stop_requested, callerVars>>

\* the worker starts stream(), once per camera
StartStream ==
    /\ pc = "idle"
    /\ stream = "notstarted"
    /\ stream' = "running"
    /\ pc' = "stream_loop"
    /\ caller' = "stream"
    /\ UNCHANGED <<listVars, feedVars, dictVars, camConfig, frames, opened, current_frame_id, camLocals,
                   camHistory, n_appended, consumerVars, stop_requested, callerVars>>

\* stream(): while self.is_opened -> self.read()
StreamRead ==
    /\ pc = "stream_loop"
    /\ opened
    /\ EnterRead
    /\ UNCHANGED <<listVars, feedVars, dictVars, camConfig, frames, opened, current_frame_id, caller, stream,
                   now, end_time, current_time, lastFrame, n_ok, n_appended, after_fatal,
                   consumerVars, stop_requested, callerVars>>

\* stream(): the while test fails and stream() returns
StreamReturn ==
    /\ pc = "stream_loop"
    /\ ~opened
    /\ stream' = "returned"
    /\ pc' = "idle"
    /\ caller' = "none"
    /\ UNCHANGED <<listVars, feedVars, dictVars, camConfig, frames, opened, current_frame_id, camLocals,
                   camHistory, n_appended, consumerVars, stop_requested, callerVars>>

\* a call of video_capture.read() counted twice
CountReadTwice(n) == n + 2

\* one more call of video_capture.read()
CountRead(n) == n + 1

\* read(): the native read and its classification
NativeRead ==
    /\ pc = "read"
    /\ native_reads' = CountRead(native_reads)
    /\ \E o \in NativeOutcomes(opened) :
        /\ first' = o
        /\ IF ReadError(o)
           THEN /\ pc' = "reinit"
                /\ ret' = OutcomeRet(o)
                /\ frame' = OutcomeFrame(o)
                /\ UNCHANGED <<caller, current_frame_id, readResult, lastFrame, n_ok, now,
                               end_time, current_time>>
           ELSE ReadTail(OutcomeRet(o), OutcomeFrame(o))
    /\ UNCHANGED <<listVars, feedVars, dictVars, camConfig, frames, opened, stream, i, probe, reinit_calls,
                   id_at_call, n_appended, after_fatal, consumerVars, stop_requested, callerVars>>

\* reinitialize_camera() entered without self.release()
ReinitEnterNoRelease ==
    /\ pc = "reinit"
    /\ now' = 0
    /\ end_time' = reinit_duration
    /\ current_time' = 0
    /\ i' = 0
    /\ ret' = FALSE
    /\ frame' = "None"
    /\ reinit_calls' = reinit_calls + 1
    /\ pc' = "reinit_loop"
    /\ UNCHANGED <<listVars, feedVars, dictVars, camConfig, frames, opened, current_frame_id, caller,
                   stream, readResult, lastFrame, first, probe, id_at_call, n_ok, n_appended,
                   after_fatal, native_reads, consumerVars, stop_requested, callerVars>>

\* reinitialize_camera(): release the capture and start the clock
ReinitEnter ==
    /\ pc = "reinit"
    /\ opened' = FALSE
    /\ now' = 0
    /\ end_time' = reinit_duration
    /\ current_time' = 0
    /\ i' = 0
    /\ ret' = FALSE
    /\ frame' = "None"
    /\ reinit_calls' = reinit_calls + 1
    /\ pc' = "reinit_loop"
    /\ UNCHANGED <<listVars, feedVars, dictVars, camConfig, frames, current_frame_id, caller, stream,
                   readResult, lastFrame, first, probe, id_at_call, n_ok, n_appended,
                   after_fatal, native_reads, consumerVars, stop_requested, callerVars>>

\* the trial number, which only the log messages use, stops counting at MaxTrials
NextTrial(n) == IF n < MaxTrials THEN n + 1 ELSE n

\* an open attempt made after reinitialize_camera had raised
OpenAttempted == IF after_fatal = "none" THEN "none" ELSE "open_attempted"

\* one trial whose initialize_video() does not open the device and takes d ticks:
\* release, measure the time, sleep
TrialFail(d) ==
    /\ pc = "reinit_loop"
    /\ LoopCond(current_time, end_time)
    /\ i' = NextTrial(i)
    /\ opened' = FALSE
    /\ current_time' = Clock(now + d)
    /\ now' = Clock(now + d + TimeToSleep(Clock(now + d), end_time, reinit_interval))
    /\ after_fatal' = OpenAttempted
    /\ UNCHANGED <<listVars, feedVars, dictVars, camConfig, frames, current_frame_id, pc, caller, stream,
                   end_time, ret, frame, readResult, lastFrame, first, probe, reinit_calls, id_at_call,
                   n_ok, n_appended, native_reads, consumerVars, stop_requested, callerVars>>

ReinitTrialFail == \E d \in 0..MaxOpenDur : TrialFail(d)

\* reinitialize_camera(): raise RuntimeError, or return (ret, frame) to read(),
\* which wraps the frame and returns
ReinitEnds(is_opened, r, f) ==
    IF ReinitFailed(is_opened, r, f) THEN ReadEnds("fatal") ELSE ReadTail(r, f)

\* one trial whose initialize_video() opens the device: the probe read, break,
\* and the lines after the loop
ReinitTrialOpen ==
    /\ pc = "reinit_loop"
    /\ LoopCond(current_time, end_time)
    /\ \E o \in NativeOutcomes(TRUE) :
        /\ i' = NextTrial(i)
        /\ opened' = TRUE
        /\ probe' = o
        /\ native_reads' = CountRead(native_reads)
        /\ after_fatal' = OpenAttempted
        /\ IF o = "raise"
           THEN ReadEnds("probe_raised")
           ELSE ReinitEnds(TRUE, OutcomeRet(o), OutcomeFrame(o))
    /\ UNCHANGED <<listVars, feedVars, dictVars, camConfig, frames, stream, first, reinit_calls, id_at_call,
                   n_appended, consumerVars, stop_requested, callerVars>>

\* reinitialize_camera(): the while test fails with no trial having opened the device
ReinitExit ==
    /\ pc = "reinit_loop"
    /\ ~LoopCond(current_time, end_time)
    /\ ReinitEnds(opened, ret, frame)
    /\ after_fatal' = IF ReinitFailed(opened, ret, frame) /\ after_fatal = "none"
                      THEN "fatal"
                      ELSE after_fatal
    /\ UNCHANGED <<listVars, feedVars, dictVars, camConfig, frames, opened, stream, i, first, probe,
                   reinit_calls, id_at_call, n_appended, native_reads, consumerVars, stop_requested, callerVars>>

\* stream() swallowing the exception and going back to its while test
StreamExceptContinues ==
    /\ pc = "stream_except"
    /\ pc' = "stream_loop"
    /\ UNCHANGED <<listVars, feedVars, dictVars, camConfig, frames, opened, current_frame_id, caller, stream,
                   camLocals, camHistory, n_appended, consumerVars, stop_requested, callerVars>>

\* stream(): an exception leaves the loop; it is logged and raised as RuntimeError
StreamExcept ==
    /\ pc = "stream_except"
    /\ stream' = "raised"
    /\ pc' = "idle"
    /\ caller' = "none"
    /\ UNCHANGED <<listVars, feedVars, dictVars, camConfig, frames, opened, current_frame_id, camLocals,
                   camHistory, n_appended, consumerVars, stop_requested, callerVars>>

\* stream(): self.frames.append(frame), one call of BaseList.append
StreamAppend ==
    /\ pc = "stream_append"
    /\ frames' = AppendItem(frames, cache_size, Frame2D(lastFrame), "first").items
    /\ n_appended' = n_appended + 1
    /\ pc' = "stream_loop"
    /\ UNCHANGED <<listVars, feedVars, dictVars, camConfig, opened, current_frame_id, caller, stream,
                   camLocals, camHistory, consumerVars, stop_requested, callerVars>>

Next ==
    \/ CallRead
    \/ StartStream
    \/ StreamRead
    \/ StreamReturn
    \/ NativeRead
    \/ ReinitEnter
    \/ ReinitTrialFail
    \/ ReinitTrialOpen
    \/ ReinitExit
    \/ StreamExcept
    \/ StreamAppend

Spec == Init /\ [][Next]_vars

\* the worker's own steps; whether an open attempt succeeds is up to the device
Worker ==
    \/ CallRead
    \/ StartStream
    \/ StreamRead
    \/ StreamReturn
    \/ NativeRead
    \/ ReinitEnter
    \/ ReinitTrialFail
    \/ ReinitExit
    \/ StreamExcept
    \/ StreamAppend

\* the worker runs whenever it can, and the clock does not stand still for ever:
\* of the trials that keep failing, some take time
ClockAdvances == \E d \in 1..MaxOpenDur : TrialFail(d)

\* termination does not depend on the cache: one cache size is enough
InitFair == Init /\ cache_size = 1

FairSpec == InitFair /\ [][Next]_vars /\ WF_vars(Worker) /\ SF_vars(ClockAdvances)

\* ------------------------------------------- the cache read by another thread
\* _append_item, first half: the eviction that BaseList.append("first") makes
StreamEvict ==
    /\ pc = "stream_append"
    /\ frames' = IF cache_size # -1 /\ Len(frames) >= cache_size
                 THEN RemoveAt(frames, 1)
                 ELSE frames
    /\ pc' = "stream_insert"
    /\ UNCHANGED <<listVars, feedVars, dictVars, camConfig, opened, current_frame_id, caller, stream,
                   camLocals, camHistory, n_appended, consumerVars, stop_requested, callerVars>>

\* _append_item, second half: self._items.append(a_item)
StreamInsert ==
    /\ pc = "stream_insert"
    /\ frames' = Append(frames, Frame2D(lastFrame))
    /\ n_appended' = n_appended + 1
    /\ pc' = "stream_loop"
    /\ UNCHANGED <<listVars, feedVars, dictVars, camConfig, opened, current_frame_id, caller, stream,
                   camLocals, camHistory, consumerVars, stop_requested, callerVars>>

\* a consumer thread evaluates Camera.frame: self.frames[-1]
ConsumerFrame ==
    /\ empty_seen' = (empty_seen \/ (n_appended >= 1 /\ PyPos(frames, -1) = 0))
    /\ UNCHANGED <<listVars, feedVars, dictVars, camConfig, frames, opened, current_frame_id, pc, caller,
                   stream, camLocals, camHistory, n_appended, torn_seen, stop_requested, callerVars>>

\* a consumer thread reads the cache by index: len(self.frames), self.frames[k]
ConsumerIndex ==
    /\ torn_seen' = (torn_seen \/ (n_appended >= cache_size /\ Len(frames) # cache_size))
    /\ UNCHANGED <<listVars, feedVars, dictVars, camConfig, frames, opened, current_frame_id, pc, caller,
                   stream, camLocals, camHistory, n_appended, empty_seen, stop_requested, callerVars>>

InitRace == Init /\ reinit_duration <= 1 /\ reinit_interval <= 1

NextRace ==
    \/ CallRead
    \/ StartStream
    \/ StreamRead
    \/ StreamReturn
    \/ NativeRead
    \/ ReinitEnter
    \/ ReinitTrialFail
    \/ ReinitTrialOpen
    \/ ReinitExit
    \/ StreamExcept
    \/ StreamEvict
    \/ StreamInsert
    \/ ConsumerFrame
    \/ ConsumerIndex

SpecRace == InitRace /\ [][NextRace]_vars

\* ------------------------------------------- Camera.frame read by a caller
\* a caller evaluates Camera.frame: self.frames[-1]; the IndexError of an empty
\* list passes the handler, which catches RuntimeError only
GetFrame ==
    /\ latest' = IF PyPos(frames, -1) = 0
                 THEN [raised |-> "IndexError", sequence_id |-> 0]
                 ELSE [raised |-> "none", sequence_id |-> frames[PyPos(frames, -1)].sequence_id]
    /\ UNCHANGED <<listVars, feedVars, dictVars, camConfig, frames, opened, current_frame_id, pc,
                   caller, stream, camLocals, camHistory, n_appended, consumerVars,
                   stop_requested, construction, a_cache_size>>

InitLatest == Init /\ reinit_duration <= 1 /\ reinit_interval <= 1

NextLatest ==
    \/ CallRead
    \/ StartStream
    \/ StreamRead
    \/ StreamReturn
    \/ NativeRead
    \/ ReinitEnter
    \/ ReinitTrialFail
    \/ ReinitTrialOpen
    \/ ReinitExit
    \/ StreamExcept
    \/ StreamAppend
    \/ GetFrame

SpecLatest == InitLatest /\ [][NextLatest]_vars

\* ------------------------------------------------ Camera.__init__ step by step
\* the a_cache_size arguments tried: ints from -1 on, and non-int numbers
CacheSizeArgs ==
    {IntArg(v) : v \in (-1)..MaxCache} \cup {[is_int |-> FALSE, value |-> v] : v \in 1..MaxCache}

\* the input checking that lets every argument pass
ArgRejectedNever(arg) == FALSE

\* Camera.__init__, input checking: not an int, or less than 1 -> TypeError
ArgRejected(arg) == ~arg.is_int \/ arg.value < 1

\* no Camera object exists yet
Unconstructed ==
    /\ cache_size = 0 /\ reinit_duration = 0 /\ reinit_interval = 0
    /\ frames = <<>>
    /\ opened = FALSE /\ current_frame_id = 0
    /\ WorkerInit
    /\ latest = NoResult
    /\ construction = [state |-> "none", open_called |-> FALSE, cache_created |-> FALSE]
    /\ a_cache_size = IntArg(0)

\* Camera.__init__ is called: the input checking
ConstructCheck ==
    /\ construction.state = "none"
    /\ \E arg \in CacheSizeArgs :
        /\ a_cache_size' = arg
        /\ construction' = [construction EXCEPT
                                !.state = IF ArgRejected(arg) THEN "TypeError" ELSE "checked"]
    /\ UNCHANGED <<listVars, feedVars, dictVars, camConfig, frames, opened, current_frame_id, pc,
                   caller, stream, camLocals, camHistory, n_appended, consumerVars,
                   stop_requested, latest>>

\* Camera.__init__: super().__init__, which makes the one open attempt
ConstructSuper ==
    /\ construction.state = "checked"
    /\ opened' \in BOOLEAN
    /\ construction' = [construction EXCEPT !.state = "opened", !.open_called = TRUE]
    /\ UNCHANGED <<listVars, feedVars, dictVars, camConfig, frames, current_frame_id, pc,
                   caller, stream, camLocals, camHistory, n_appended, consumerVars,
                   stop_requested, latest, a_cache_size>>

\* Camera.__init__: the reinit parameters and the frames list
ConstructCache ==
    /\ construction.state = "opened"
    /\ reinit_duration' \in 0..1
    /\ reinit_interval' \in 0..1
    /\ cache_size' = a_cache_size.value
    /\ frames' = <<>>
    /\ construction' = [construction EXCEPT !.state = "done", !.cache_created = TRUE]
    /\ UNCHANGED <<listVars, feedVars, dictVars, opened, current_frame_id, pc,
                   caller, stream, camLocals, camHistory, n_appended, consumerVars,
                   stop_requested, latest, a_cache_size>>

InitConstruct == NoList /\ NoFeed /\ NoDict /\ Unconstructed

NextConstruct ==
    \/ ConstructCheck
    \/ ConstructSuper
    \/ ConstructCache
    \/ construction.state = "done" /\ CallRead
    \/ construction.state = "done" /\ StartStream
    \/ StreamRead
    \/ StreamReturn
    \/ NativeRead
    \/ ReinitEnter
    \/ ReinitTrialFail
    \/ ReinitTrialOpen
    \/ ReinitExit
    \/ StreamExcept
    \/ StreamAppend

SpecConstruct == InitConstruct /\ [][NextConstruct]_vars

\* ------------------------------------- a camera built with no time to retry
\* Camera.__init__ checks a_cache_size only: a_reinit_duration may be 0 or
\* negative
InitBudget ==
    /\ NoList /\ NoFeed /\ NoDict
    /\ Video2DInit
    /\ cache_size = 1
    /\ reinit_duration \in (-1)..1
    /\ reinit_interval \in 0..1
    /\ frames = <<>>
    /\ WorkerInit
    /\ CallerInit

SpecBudget == InitBudget /\ [][Next]_vars

\* --------------------------------------- the camera shut down while streaming
\* another thread shuts the camera down while stream() runs: it releases the
\* capture handle, at whatever line the worker stands
Shutdown ==
    /\ stream = "running"
    /\ ~stop_requested
    /\ stop_requested' = TRUE
    /\ opened' = FALSE
    /\ UNCHANGED <<listVars, feedVars, dictVars, camConfig, frames, current_frame_id, pc, caller, stream,
                   camLocals, camHistory, n_appended, consumerVars, callerVars>>

InitShutdown == Init /\ cache_size = 1 /\ reinit_duration <= 2 /\ reinit_interval <= 1

NextShutdown ==
    \/ StartStream
    \/ StreamRead
    \/ StreamReturn
    \/ NativeRead
    \/ ReinitEnter
    \/ ReinitTrialFail
    \/ ReinitTrialOpen
    \/ ReinitExit
    \/ StreamExcept
    \/ StreamAppend
    \/ Shutdown

SpecShutdown == InitShutdown /\ [][NextShutdown]_vars


InitList == ListInit /\ NoFeed /\ NoDict /\ NoCamera

NextList ==
    \/ ListAppend
    \/ ListAppendBatch
    \/ ListSetItem
    \/ ListDelItem
    \/ ListPop
    \/ ListClear

SpecList == InitList /\ [][NextList]_vars

\* ----------------------------- a sequence appended item by item and as a batch
MaxFeedItem == 4     \* the items of the sequence are drawn from 1..MaxFeedItem
MaxSeq == 4          \* longest sequence appended

FeedItems == 1..MaxFeedItem

Inputs == UNION {[1..n -> FeedItems] : n \in 0..MaxSeq}

\* two empty BaseLists of one valid a_max_size, and the sequence to append
FeedInit ==
    /\ max_size \in {-1} \cup 1..MaxCap
    /\ items = <<>>
    /\ raised = "none"
    /\ lastOp = [op |-> "init", evicted |-> FALSE]
    /\ input \in Inputs
    /\ policy \in Strategies
    /\ fed = 0
    /\ batch_items = <<>>
    /\ batch_done = FALSE
    /\ held = -1

\* append(a_item, policy) with the next single item of the sequence
FeedAppend ==
    /\ fed < Len(input)
    /\ LET r == AppendItem(items, max_size, input[fed + 1], policy)
       IN /\ items' = r.items
          /\ raised' = r.raised
          /\ lastOp' = [op |-> "append", evicted |-> r.evicted]
    /\ fed' = fed + 1
    /\ UNCHANGED <<max_size, camVars, dictVars, input, policy, batch_items, batch_done, held>>

\* append(s, policy) with the whole sequence, on the second BaseList
FeedBatch ==
    /\ ~batch_done
    /\ batch_items' = AppendAll(batch_items, max_size, input, policy, FALSE).items
    /\ batch_done' = TRUE
    /\ UNCHANGED <<listVars, camVars, dictVars, input, policy, fed, held>>

InitFeed == FeedInit /\ NoDict /\ NoCamera

NextFeed ==
    \/ FeedAppend
    \/ FeedBatch

SpecFeed == InitFeed /\ [][NextFeed]_vars

\* ------------------------------------------- clear() and then the same appends
\* the sequences appended after clear()
ClearInputs == UNION {[1..n -> Items] : n \in 0..MaxSeq}

\* clear() leaving the items in place
ClearKeepsItems(its) == its

\* BaseList.clear: self._items = []
Clear(its) == <<>>

\* a bounded BaseList that is used and then cleared, a second one of the same
\* a_max_size that stays fresh, and the sequence to append to both
ClearInit ==
    /\ max_size \in 1..MaxCap
    /\ items = <<>>
    /\ raised = "none"
    /\ lastOp = [op |-> "init", evicted |-> FALSE]
    /\ input \in ClearInputs
    /\ policy \in Strategies
    /\ fed = 0
    /\ batch_items = <<>>
    /\ batch_done = FALSE
    /\ held = -1

\* append(a_item, policy) before clear(): whatever the collection comes to hold
ClearFill ==
    /\ held = -1
    /\ \E a_item \in Items :
        LET r == AppendItem(items, max_size, a_item, policy)
        IN /\ items' = r.items
           /\ raised' = r.raised
           /\ lastOp' = [op |-> "append", evicted |-> r.evicted]
    /\ UNCHANGED <<max_size, camVars, dictVars, feedVars>>

\* clear()
ClearCall ==
    /\ held = -1
    /\ held' = Len(items)
    /\ items' = Clear(items)
    /\ raised' = "none"
    /\ lastOp' = [op |-> "clear", evicted |-> FALSE]
    /\ UNCHANGED <<max_size, camVars, dictVars, input, policy, fed, batch_items, batch_done>>

\* the appends of the sequence start once clear() has returned
ClearAppend == held # -1 /\ FeedAppend

InitClear == ClearInit /\ NoDict /\ NoCamera

NextClear ==
    \/ ClearFill
    \/ ClearCall
    \/ ClearAppend
    \/ FeedBatch

SpecClear == InitClear /\ [][NextClear]_vars

\* ------------------------------------------------------ the BaseDict alone
InitDict == DictInit /\ NoList /\ NoFeed /\ NoCamera

NextDict ==
    \/ DictAppend
    \/ DictAppendBatch
    \/ DictSetItem
    \/ DictDelItem
    \/ DictPop
    \/ DictClear

SpecDict == InitDict /\ [][NextDict]_vars

\* ------------------------------- the two collections built without a capacity
\* a BaseList and a BaseDict, both with the default a_max_size of -1
InitUnbounded == NoList /\ NoFeed /\ NoDict /\ NoCamera

\* the two objects share no state: a run exercises one of them
ListUntouched == lastOp.op = "init"
DictUntouched == dict_lastOp = NoCall

NextUnbounded ==
    \/ DictUntouched /\ ListAppend
    \/ DictUntouched /\ ListAppendBatch
    \/ DictUntouched /\ ListSetItem
    \/ DictUntouched /\ ListDelItem
    \/ DictUntouched /\ ListPop
    \/ DictUntouched /\ ListClear
    \/ ListUntouched /\ DictAppend
    \/ ListUntouched /\ DictAppendBatch
    \/ ListUntouched /\ DictSetItem
    \/ ListUntouched /\ DictDelItem
    \/ ListUntouched /\ DictPop
    \/ ListUntouched /\ DictClear

SpecUnbounded == InitUnbounded /\ [][NextUnbounded]_vars

\* ------------------------------------------------------------------ claims
\* C1: a bounded BaseList with capacity >= 1 never holds more than capacity
\* items after any append (single or batch, either policy), set, remove, pop
\* or clear.
LenWithinCapacity == max_size >= 1 => Len(items) <= max_size

LenWithinCapacityWitness ==
    /\ max_size >= 2
    /\ Len(items) = max_size
    /\ lastOp = [op |-> "append_batch", evicted |-> TRUE]

\* C2: the k-th read() that returns a frame returns sequence_id k: the first
\* one 1, each later one the previous id + 1, also across a reinitialization.
SequenceIds ==
    /\ current_frame_id = n_ok
    /\ lastFrame = n_ok
    /\ readResult = "ok" => lastFrame = id_at_call + 1

SequenceIdsWitness ==
    /\ n_ok >= 2
    /\ readResult = "ok"
    /\ reinit_calls = 1
    /\ lastFrame = n_ok

\* C3: once reinitialize_camera has spent its budget without a successful open
\* and raised its fatal error, the controller never tries to open the device
\* again, also when read() is called again.
NoOpenAfterFatal == after_fatal # "open_attempted"

\* C4: when opens fail k times and then one succeeds with a good probe read
\* before the deadline, the enclosing read() returns a frame whose sequence_id
\* is the previous maximum + 1 and the camera is open again.
ResumeAfterRetries ==
    probe = "ok" =>
        /\ readResult = "ok"
        /\ reinit_calls = 1
        /\ lastFrame = id_at_call + 1
        /\ current_frame_id = lastFrame
        /\ opened

ResumeAfterRetriesWitness ==
    /\ reinit_duration = 5
    /\ reinit_interval = 1
    /\ i = 5
    /\ probe = "ok"
    /\ readResult = "ok"
    /\ id_at_call >= 1
    /\ lastFrame = id_at_call + 1
    /\ opened

\* C5: a consumer reading the cache while stream() appends never sees it torn:
\* never fewer than cache_size frames once it has been full, never empty once a
\* frame has been cached.
NoTornRead == ~torn_seen /\ ~empty_seen

\* C6: every read() call terminates, by a frame or by an error, as long as the
\* clock advances: reinitialize_camera stops retrying once the budget is spent.
InRead == {"read", "reinit", "reinit_loop"}

ReadTerminates == (pc \in InRead) ~> (pc \notin InRead)

ReadTerminatesWitness ==
    /\ readResult = "fatal"
    /\ reinit_calls = 1
    /\ reinit_duration >= 2
    /\ i >= 2
    /\ pc \notin InRead

\* C7: a native read that raises, returns a false flag or returns no frame makes
\* read() call reinitialize_camera exactly once, a good one makes it call it not
\* at all; when the reinitialization succeeds read() returns a frame and
\* stream() goes on.
ReadFailureAbsorbed ==
    readResult # "none" =>
        /\ first \in {"raise", "ret_false", "frame_none", "ret_false_frame_none"}
               => reinit_calls = 1
        /\ first = "ok" => (reinit_calls = 0 /\ readResult = "ok")
        /\ (reinit_calls = 1 /\ probe = "ok") =>
               /\ readResult = "ok"
               /\ caller = "stream" => (stream = "running" /\ pc # "stream_except")

ReadFailureAbsorbedWitness ==
    /\ first = "frame_none"
    /\ reinit_calls = 1
    /\ probe = "ok"
    /\ readResult = "ok"
    /\ caller = "stream"
    /\ stream = "running"

Last(its) == its[Len(its)]

\* C8 as stated: right after any read() that returned a frame, the newest frame
\* of the cache is that frame.
ReadAppendsFrame ==
    readResult = "ok" => (frames # <<>> /\ Last(frames) = Frame2D(lastFrame))

\* C8 amended: read() leaves the cache alone and stream() appends the frame right
\* after the read() that returned it: when read() has just returned to stream()
\* the frame is not cached yet, when the loop is back at its while test after an
\* append the newest frame of the cache is that frame, and a read() called by
\* anyone else caches nothing.
LoopAppendsFrame ==
    /\ [](/\ (pc = "stream_append" /\ readResult = "ok") =>
                 \A k \in 1..Len(frames) : frames[k] # Frame2D(lastFrame)
          /\ (pc = "stream_loop" /\ n_appended >= 1) =>
                 (readResult = "ok" /\ frames # <<>> /\ Last(frames) = Frame2D(lastFrame)))
    /\ [][(pc \in InRead) => (frames' = frames)]_vars

LoopAppendsFrameWitness ==
    /\ pc = "stream_loop"
    /\ readResult = "ok"
    /\ n_appended >= 2
    /\ Last(frames) = Frame2D(lastFrame)

\* C9: with stream() the only writer, the cache holds min(n, cache_size) frames
\* of the n appended so far, oldest first with consecutive sequence ids, and
\* while the loop runs its newest frame is the newest frame appended.
CacheHoldsRecent ==
    LET k == Min(n_appended, cache_size)
    IN /\ Len(frames) = k
       /\ \A j \in 1..(k - 1) : frames[j + 1].sequence_id = frames[j].sequence_id + 1
       /\ (stream = "running" /\ k > 0) =>
              frames[k].sequence_id =
                  IF pc = "stream_append" THEN current_frame_id - 1 ELSE current_frame_id

CacheHoldsRecentWitness ==
    /\ cache_size = 2
    /\ n_appended = 3
    /\ frames = <<Frame2D(2), Frame2D(3)>>

\* C10: when read() ends with an error inside stream(), stream() raises to its
\* caller and stays stopped: it reads, appends and opens no more and does not
\* start again.
LoopStopsOnFatal ==
    [][/\ pc = "stream_except" => (stream' = "raised" /\ pc' = "idle")
       /\ stream = "raised" =>
              /\ stream' = "raised"
              /\ caller' # "stream"
              /\ frames' = frames
              /\ n_appended' = n_appended]_vars

LoopStopsOnFatalWitness ==
    /\ stream = "raised"
    /\ n_appended >= 1
    /\ after_fatal = "fatal"
    /\ pc = "idle"

\* C11 (as stated): once the camera was shut down while stream() runs, the
\* streaming loop does not open the device again, also when the handle was
\* released while a read() was in flight
NoReopenAfterShutdown ==
    [][(stop_requested /\ caller = "stream") => ~opened']_vars

\* the last n items of a sequence
LastN(its, n) == SubSeq(its, Len(its) - n + 1, Len(its))

\* C12: under evict-oldest, appending a sequence item by item to an empty
\* BaseList of capacity c >= 1 leaves exactly the last min(|s|, c) items of the
\* sequence, in order (A, B, C, D with capacity 3 leaves [B, C, D])
EvictOldestKeepsLast ==
    (max_size >= 1 /\ Lower(policy) = "first")
        => items = LastN(SubSeq(input, 1, fed), Min(fed, max_size))

EvictOldestKeepsLastWitness ==
    /\ max_size = 3 /\ policy = "first"
    /\ input = <<1, 2, 3, 4>> /\ fed = 4
    /\ items = <<2, 3, 4>>

\* C13: under evict-newest, once a BaseList of capacity c >= 1 is full every
\* append replaces the newest item: after the sequence was appended item by
\* item the list holds its first c - 1 items followed by the item appended last
\* (A, B, C, D with capacity 3 leaves [A, B, D])
EvictNewestKeepsFirst ==
    (max_size >= 1 /\ Lower(policy) = "last")
        => items = IF fed <= max_size
                   THEN SubSeq(input, 1, fed)
                   ELSE Append(SubSeq(input, 1, max_size - 1), input[fed])

EvictNewestKeepsFirstWitness ==
    /\ max_size = 3 /\ policy = "last"
    /\ input = <<1, 2, 3, 4>> /\ fed = 4
    /\ items = <<1, 2, 4>>

\* C14: appending a batch leaves the BaseList as appending the batch's items
\* one by one with the same policy does; under evict-oldest a batch longer
\* than the capacity leaves exactly the last capacity items of the batch
BatchAsOneByOne ==
    batch_done =>
        /\ fed = Len(input) => batch_items = items
        /\ (max_size >= 1 /\ Lower(policy) = "first" /\ Len(input) > max_size)
               => batch_items = LastN(input, max_size)

BatchAsOneByOneWitness ==
    /\ batch_done /\ fed = Len(input)
    /\ max_size = 3 /\ policy = "FIRST"
    /\ input = <<1, 2, 3, 4>>
    /\ batch_items = <<2, 3, 4>> /\ items = batch_items

\* C15: an append to a BaseDict that is at its capacity (>= 1) removes the key
\* inserted longest ago under 'first' and the key inserted most recently under
\* 'last', and then holds the appended key (capacity 2 and k1, k2, k3 appended
\* under 'first' leaves the keys k2 and k3)
DictEvictsByPolicy ==
    [][(/\ dict_lastOp'.op = "append"
        /\ dict_max_size >= 1
        /\ Len(dict_items) >= dict_max_size)
       => /\ Lower(dict_lastOp'.strategy) = "first"
               => DictKeys(dict_items')
                      = (DictKeys(dict_items) \ {dict_items[1].key}) \cup {dict_lastOp'.key}
          /\ Lower(dict_lastOp'.strategy) = "last"
               => DictKeys(dict_items')
                      = (DictKeys(dict_items) \ {dict_items[Len(dict_items)].key})
                            \cup {dict_lastOp'.key}]_vars

DictEvictsByPolicyWitness ==
    /\ dict_max_size = 2
    /\ dict_lastOp.op = "append" /\ dict_lastOp.key = 3 /\ dict_lastOp.strategy = "first"
    /\ dict_lastOp.full /\ ~dict_lastOp.had
    /\ Len(dict_items) = 2 /\ dict_items[1].key = 2 /\ dict_items[2].key = 3

\* C16: a BaseDict with capacity >= 1 never holds more keys than its capacity,
\* whatever append, set, remove, pop or clear calls were made
DictLenWithinCapacity == dict_max_size >= 1 => Len(dict_items) <= dict_max_size

DictLenWithinCapacityWitness ==
    /\ dict_max_size = 2 /\ Len(dict_items) = 2
    /\ dict_lastOp.op = "append_batch" /\ dict_lastOp.full
    /\ dict_raised = "none"

\* C17: __setitem__ on a key that is present replaces its value in place and
\* removes no entry, also when the BaseDict is at its capacity
SetReplacesValue ==
    [][(dict_lastOp'.op = "set" /\ KeyPos(dict_items, dict_lastOp'.key) # 0)
       => /\ dict_raised' = "none"
          /\ dict_items' = [dict_items EXCEPT
                                ![KeyPos(dict_items, dict_lastOp'.key)].value = dict_lastOp'.value]]_vars

SetReplacesValueWitness ==
    /\ dict_lastOp.op = "set" /\ dict_lastOp.had /\ dict_lastOp.full
    /\ dict_max_size = 2 /\ Len(dict_items) = 2
    /\ dict_items[1].key = dict_lastOp.key /\ dict_items[1].value = dict_lastOp.value

\* C18: __setitem__ on a key that is absent, at capacity (>= 1), acts as an
\* append under 'first': the oldest key is gone, the new key is the newest
\* entry with the given value, and the length is still the capacity
SetAbsentKeyAppends ==
    [][(/\ dict_lastOp'.op = "set"
        /\ KeyPos(dict_items, dict_lastOp'.key) = 0
        /\ dict_max_size >= 1
        /\ Len(dict_items) = dict_max_size)
       => /\ dict_raised' = "none"
          /\ dict_items' = Append(Tail(dict_items),
                                  [key |-> dict_lastOp'.key, value |-> dict_lastOp'.value])
          /\ Len(dict_items') = dict_max_size]_vars

SetAbsentKeyAppendsWitness ==
    /\ dict_lastOp.op = "set" /\ ~dict_lastOp.had /\ dict_lastOp.full
    /\ dict_max_size = 2 /\ Len(dict_items) = 2
    /\ dict_items[2].key = dict_lastOp.key /\ dict_items[2].value = dict_lastOp.value

\* C19 (as stated): no BaseList and no BaseDict exists whose capacity is below
\* 1 and is not the unbounded marker -1, because constructing one fails
CapacityValidated ==
    /\ max_size = -1 \/ max_size >= 1
    /\ dict_max_size = -1 \/ dict_max_size >= 1

\* C20 (as stated): an append to a bounded collection that passes an unknown
\* removal strategy fails, also while the collection is below its capacity
UnknownPolicyRejected ==
    /\ (max_size >= 1 /\ lastOp.op = "append" /\ Lower(policy) \notin {"first", "last"})
           => raised = "ValueError"
    /\ (/\ dict_max_size >= 1
        /\ dict_lastOp.op = "append"
        /\ Lower(dict_lastOp.strategy) \notin {"first", "last"})
           => dict_raised = "ValueError"

\* C21 (as stated): a call that fails with an unknown removal strategy or with
\* key and value lists of different lengths leaves the collection as it was
\* before the call, also a batch append whose first items fitted
FailedCallChangesNothing ==
    [][/\ raised' = "ValueError" => items' = items
       /\ dict_raised' \in {"ValueError", "RuntimeError"} => dict_items' = dict_items]_vars

ConstructionValidated ==
    (construction.state # "none" /\ (~a_cache_size.is_int \/ a_cache_size.value < 1))
        => /\ construction.state = "TypeError"
           /\ ~construction.open_called /\ ~construction.cache_created
           /\ ~opened /\ frames = <<>> /\ pc = "idle"

ConstructionValidatedWitness ==
    /\ construction.state = "TypeError"
    /\ a_cache_size = IntArg(0)

\* C24 (as stated): while the deadline of reinitialize_camera has not passed,
\* read() does not end with the fatal error: a probe read that fails is
\* followed by a release, the sleep and another trial
NoFatalBeforeDeadline ==
    [][(pc = "reinit_loop" /\ now < end_time) => readResult' # "fatal"]_vars

\* C25 (as stated): reinitialize_camera starts a trial, and with it an open
\* attempt, only while the clock is strictly before end_time
OpenBeforeDeadline ==
    [][(pc = "reinit_loop" /\ LoopCond(current_time, end_time) /\ i' # i)
       => now < end_time]_vars

\* C26 (as stated): when read() has ended with the fatal error the capture
\* handle is released
FatalReleasesHandle == readResult = "fatal" => ~opened

\* C27 (as stated): stream() does not return normally unless a shutdown was
\* requested
StreamNeverReturns == stream = "returned" => stop_requested

\* C28: a read() that returns a frame after reinitialize_camera has made two
\* native reads, the one that failed and the probe after the reopen, and the
\* probe is the read that delivered the buffer it wraps
OneReadAfterReopen ==
    (readResult = "ok" /\ reinit_calls >= 1)
        => /\ native_reads = 2
           /\ ReadError(first)
           /\ probe = "ok"
           /\ reinit_calls = 1

OneReadAfterReopenWitness ==
    /\ readResult = "ok" /\ reinit_calls = 1 /\ native_reads = 2
    /\ first = "ret_false" /\ probe = "ok" /\ i >= 2

\* C29: while reinitialize_camera is in its loop, where every open attempt
\* starts, no capture handle is open: the handle was released on entry and
\* again after every attempt that failed, so an attempt never opens a second one
NoOpenHandleAtAttempt == pc = "reinit_loop" => ~opened

\* the loop about to make a further attempt, entered from a read on an open handle
NoOpenHandleAtAttemptWitness ==
    /\ pc = "reinit_loop" /\ first = "ret_false" /\ i >= 1
    /\ LoopCond(current_time, end_time) /\ ~opened

\* C30: after an attempt that failed, reinitialize_camera sleeps only if the
\* time it measured is before the deadline, for exactly
\* min(end_time - current_time, reinit_interval); the sleep never ends after
\* the deadline and never lasts longer than reinit_interval
SleepWithinDeadline ==
    [][(pc = "reinit_loop" /\ pc' = "reinit_loop")
       => /\ current_time' >= now
          /\ current_time' < end_time
               => now' - current_time' = Min(end_time - current_time', reinit_interval)
          /\ current_time' >= end_time => now' = current_time'
          /\ now' - current_time' <= reinit_interval
          /\ now' > current_time' => now' <= end_time]_vars

\* a sleep that the deadline cut shorter than reinit_interval
SleepWithinDeadlineWitness ==
    /\ pc = "reinit_loop" /\ i >= 1
    /\ now > current_time /\ now = end_time
    /\ now - current_time < reinit_interval

\* C31: once clear() was called on a bounded collection and the sequence s was
\* appended to it, it holds what a fresh collection of the same capacity and
\* policy holds after the same appends, whatever it held before clear()
ClearThenAppendAsFresh ==
    (held # -1 /\ fed = Len(input) /\ batch_done) => items = batch_items

\* a full collection was cleared, and the sequence appended after it overflowed
ClearThenAppendAsFreshWitness ==
    /\ held = max_size /\ max_size = 2 /\ fed = Len(input) /\ batch_done
    /\ Len(input) = 4 /\ Lower(policy) = "last"
    /\ items = <<input[1], input[4]>> /\ input[1] # input[4]

\* its is the beginning of longer
IsPrefix(its, longer) ==
    /\ Len(its) <= Len(longer)
    /\ \A k \in 1..Len(its) : longer[k] = its[k]

FatalReadConsumesNoId ==
    [][/\ readResult' = "fatal"
            => current_frame_id' = id_at_call' /\ current_frame_id' = n_ok'
       /\ (readResult' = "fatal" /\ readResult # "fatal")
            => current_frame_id' = current_frame_id /\ frames' = frames
       /\ pc \in {"read", "reinit", "reinit_loop"} => frames' = frames
       /\ (readResult' = "ok" /\ readResult # "ok")
            => lastFrame' = n_ok' /\ lastFrame' = id_at_call' + 1]_vars

\* stream() cached frame 1, and the next read() ended with the fatal error
FatalReadConsumesNoIdWitness ==
    /\ readResult = "fatal" /\ pc = "stream_except"
    /\ n_ok = 1 /\ current_frame_id = 1
    /\ Len(frames) = 1 /\ frames[1].sequence_id = 1

\* C34: append with a key that is present, on a bounded mapping at capacity,
\* evicts per policy before it writes. Under evict-oldest the oldest key goes
\* although no key is added, which leaves the mapping one entry shorter; when
\* the appended key is itself the oldest, it comes back as the newest entry
\* and the length stays. Under evict-newest the same holds of the newest key
AppendPresentKeyEvicts ==
    [][(/\ dict_lastOp'.op = "append" /\ dictVars' # dictVars
        /\ dict_lastOp'.had /\ dict_lastOp'.full /\ dict_max_size >= 1
        /\ Lower(dict_lastOp'.strategy) \in {"first", "last"})
       => LET victim == IF Lower(dict_lastOp'.strategy) = "first"
                        THEN dict_items[1].key
                        ELSE dict_items[Len(dict_items)].key
              n == Len(dict_items')
          IN /\ dict_raised' = "none"
             /\ n >= 1
             /\ KeyPos(dict_items', dict_lastOp'.key) # 0
             /\ dict_items'[KeyPos(dict_items', dict_lastOp'.key)].value = dict_lastOp'.value
             /\ IF victim = dict_lastOp'.key
                THEN /\ n = Len(dict_items)
                     /\ dict_items'[n].key = dict_lastOp'.key
                ELSE /\ n = Len(dict_items) - 1
                     /\ n < dict_max_size
                     /\ victim \notin DictKeys(dict_items')]_vars

\* a mapping of capacity 2 left with one entry by an append of its newer key
AppendPresentKeyEvictsWitness ==
    /\ dict_max_size = 2 /\ dict_lastOp.op = "append" /\ dict_lastOp.strategy = "first"
    /\ dict_lastOp.had /\ dict_lastOp.full /\ dict_raised = "none"
    /\ Len(dict_items) = 1 /\ dict_items[1].key = dict_lastOp.key

\* C35: with reinit_duration <= 0 a failed native read takes read() into
\* reinitialize_camera, which releases the handle, finds its loop test false
\* at once and raises: read() ends with the fatal error, the handle released,
\* with no trial, no sleep and no probe read
NoBudgetNoAttempt ==
    [][/\ (reinit_duration <= 0 /\ pc = "reinit")
            => pc' = "reinit_loop" /\ ~opened'
       /\ (reinit_duration <= 0 /\ pc = "reinit_loop")
            => /\ ~opened /\ i = 0 /\ now = 0
               /\ readResult' = "fatal"
               /\ pc' \in {"idle", "stream_except"}
               /\ ~opened' /\ i' = 0 /\ probe' = "none" /\ native_reads' = 1]_vars

\* a camera that had returned a frame fails its next read with no budget
NoBudgetNoAttemptWitness ==
    /\ reinit_duration = -1 /\ readResult = "fatal" /\ reinit_calls = 1
    /\ first = "ret_false" /\ n_ok >= 1 /\ ~opened /\ i = 0 /\ probe = "none"

\* C36: the eviction order of the mapping is the order of first insertion.
\* __setitem__ on a key that is present leaves every key at its place in that
\* order; and when the key just set is the oldest one, the next call that
\* brings a new key into the full mapping under 'first' (append, or
\* __setitem__ acting as append) evicts that very key
SetKeepsAge ==
    [][/\ (dict_lastOp'.op = "set" /\ dict_lastOp'.had /\ dictVars' # dictVars)
            => /\ Len(dict_items') = Len(dict_items)
               /\ \A j \in 1..Len(dict_items) : dict_items'[j].key = dict_items[j].key
       /\ (/\ dict_lastOp.op = "set" /\ dict_lastOp.had /\ dict_raised = "none"
           /\ dict_items[1].key = dict_lastOp.key
           /\ dictVars' # dictVars
           /\ ~dict_lastOp'.had /\ dict_lastOp'.full /\ dict_max_size >= 1
           /\ \/ dict_lastOp'.op = "append" /\ Lower(dict_lastOp'.strategy) = "first"
              \/ dict_lastOp'.op = "set")
            => /\ dict_raised' = "none"
               /\ dict_lastOp.key \notin DictKeys(dict_items')
               /\ Len(dict_items') = Len(dict_items)
               /\ dict_items'[Len(dict_items')].key = dict_lastOp'.key
               /\ \A j \in 2..Len(dict_items) : dict_items'[j - 1] = dict_items[j]]_vars

\* a full mapping whose oldest key was just given the value v2: it is still
\* the first in the order
SetKeepsAgeWitness ==
    /\ dict_lastOp.op = "set" /\ dict_lastOp.had /\ dict_lastOp.full /\ dict_raised = "none"
    /\ dict_max_size = 2 /\ Len(dict_items) = 2
    /\ dict_lastOp.value = "v2"
    /\ dict_items[1] = [key |-> dict_lastOp.key, value |-> "v2"]
    /\ dict_items[2].value = "v1"

\* a capacity the constructor accepts although it is neither -1 nor positive
NoRoom == max_size # -1 /\ max_size < 1

\* C37 as stated: on a BaseList of capacity 0, or below -1, every append
\* fails with the error of evicting from an empty store, and the list is empty
AppendsFailEvicting ==
    (NoRoom /\ lastOp.op \in {"append", "append_batch"})
        => raised = "IndexError" /\ items = <<>>

\* C37: a BaseList of capacity 0, or below -1, exists and stays empty, and
\* every append of an item to it fails and leaves it empty: with a strategy
\* token that names a strategy the error is the IndexError of popping from
\* the empty list, with any other token it is the ValueError for the token;
\* only the append of an empty batch, which appends nothing, returns
AppendsFailWithoutRoom ==
    NoRoom
        => /\ items = <<>>
           /\ \A a_item \in Items, s \in Strategies :
                LET r == AppendItem(items, max_size, a_item, s)
                IN /\ r.items = <<>>
                   /\ r.raised = IF Lower(s) \in {"first", "last"}
                                 THEN "IndexError"
                                 ELSE "ValueError"
           /\ lastOp.op = "append" => raised \in {"IndexError", "ValueError"}
           /\ \A batch \in Batches, s \in Strategies :
                AppendAll(items, max_size, batch, s, FALSE).raised = "none" <=> batch = <<>>

\* an append to a BaseList of capacity 0 has failed popping from the empty list
AppendsFailWithoutRoomWitness ==
    /\ max_size = 0 /\ lastOp.op = "append" /\ raised = "IndexError" /\ items = <<>>

====
